---- MODULE Spec2Model ----
(***************************************************************************)
(* A model of the AE443 Atlas lunar-logistics repository:                  *)
(*   - the analytic model library  (src/src/lunar_logistics_models.py),    *)
(*   - the stochastic simulations  (src/src/updated_models.py),            *)
(*   - the validation pipeline     (src/validate_models.py).               *)
(*                                                                         *)
(* Python floats are modelled as exact rationals [n, d] in lowest terms    *)
(* with d > 0; the not-a-number sentinel is the pair with d = 0.  The      *)
(* rounding of a float result is modelled where a floor is taken of it     *)
(* (simulate_rover_tasks), and nowhere else.                               *)
(***************************************************************************)
EXTENDS Integers, Sequences, FiniteSets, TLC

VARIABLES
    routine,              \* the function that was called
    args,                 \* its arguments
    pc,                   \* position in the routine's body
    result,               \* what the call produced: a value or a raised error
    iter,                 \* loop index of the for-loops
    total_shipments,      \* simulate_cargo_flow locals
    processed_shipments,
    time_elapsed,
    drawn,                \* the actual_processing values drawn so far, in order
    time_per_task,        \* simulate_rover_tasks locals
    tasks_completed,
    state,                \* simulate_power_availability locals
    t,
    operational_time,
    csv,                  \* the dataset stored in validation_file
    df,                   \* validate_model locals
    errors,
    out,                  \* the file written by to_csv
    mean_error

vars == <<routine, args, pc, result, iter, total_shipments, processed_shipments,
          time_elapsed, drawn, time_per_task, tasks_completed, state, t,
          operational_time, csv, df, errors, out, mean_error>>

cargoVars == <<total_shipments, processed_shipments, time_elapsed, drawn>>
roverVars == <<time_per_task, tasks_completed>>
powerVars == <<state, t, operational_time>>
validateVars == <<csv, df, errors, out, mean_error>>

-----------------------------------------------------------------------------
(* Bounds of the model.                                                    *)

MaxShipments == 3
MaxRovers == 2
MaxDraw == 2
MaxHorizon == 3
MaxRows == 3

-----------------------------------------------------------------------------
(* Exact rational arithmetic standing for float arithmetic.                *)

Abs(x) == IF x < 0 THEN -x ELSE x

RECURSIVE GCD(_, _)
GCD(a, b) == IF b = 0 THEN a ELSE GCD(b, a % b)

F(n, d) ==
    LET s == IF d < 0 THEN -1 ELSE 1
        g == GCD(Abs(n), Abs(d))
    IN  [n |-> (s * n) \div g, d |-> (s * d) \div g]

I(x) == [n |-> x, d |-> 1]
Zero == I(0)
One == I(1)
NaN == [n |-> 0, d |-> 0]
IsNaN(x) == x.d = 0

FAdd(x, y) == F(x.n * y.d + y.n * x.d, x.d * y.d)
FSub(x, y) == F(x.n * y.d - y.n * x.d, x.d * y.d)
FMul(x, y) == F(x.n * y.n, x.d * y.d)
FDiv(x, y) == F(x.n * y.d, x.d * y.n)
FAbs(x) == [n |-> Abs(x.n), d |-> x.d]
FLt(x, y) == x.n * y.d < y.n * x.d
FLe(x, y) == x.n * y.d <= y.n * x.d
FMax(x, y) == IF FLt(x, y) THEN y ELSE x
FMin(x, y) == IF FLt(y, x) THEN y ELSE x

(* What a call produces.                                                   *)
NoResult == [kind |-> "none", val |-> Zero]
Return(v) == [kind |-> "value", val |-> v]
Raise(e) == [kind |-> e, val |-> Zero]

-----------------------------------------------------------------------------
(* Analytic model library.                                                 *)

K_payload == F(105, 100)
scaling_factor == F(1501, 100)
K_position == 50

(* system_automation_level ** 10.41, exact at the two ends of [0, 1]; the  *)
(* model calls it at no other point.                                       *)
Pow_automation_effect(a) ==
    CASE a = Zero -> Zero
      [] a = One -> One

(* A zero mass or power let through: < where the code has <=.             *)
payload_maneuverability_strict(payload_mass, robot_power_output, terrain_complexity) ==
    IF FLt(payload_mass, Zero) \/ FLt(robot_power_output, Zero)
    THEN Raise("ValueError")
    ELSE IF FLt(terrain_complexity, Zero)
    THEN Raise("ValueError")
    ELSE IF payload_mass = Zero
    THEN Raise("ZeroDivisionError")
    ELSE Return(FMul(FDiv(robot_power_output,
                          FMul(payload_mass, FAdd(One, terrain_complexity))),
                     K_payload))

payload_maneuverability(payload_mass, robot_power_output, terrain_complexity) ==
    IF FLe(payload_mass, Zero) \/ FLe(robot_power_output, Zero)
    THEN Raise("ValueError")
    ELSE IF FLt(terrain_complexity, Zero)
    THEN Raise("ValueError")
    ELSE Return(FMul(FDiv(robot_power_output,
                          FMul(payload_mass, FAdd(One, terrain_complexity))),
                     K_payload))

crew_time_requirements(payload_complexity, system_automation_level) ==
    IF FLt(payload_complexity, Zero)
    THEN Raise("ValueError")
    ELSE IF ~(FLe(Zero, system_automation_level) /\ FLe(system_automation_level, One))
    THEN Raise("ValueError")
    ELSE Return(FMax(Zero,
                     FMul(FMul(scaling_factor, payload_complexity),
                          FSub(One, Pow_automation_effect(system_automation_level)))))

position_location_accuracy(power_usage, environmental_noise, robot_path_variability) ==
    IF FLe(power_usage, Zero)
    THEN Raise("ValueError")
    ELSE IF FLt(environmental_noise, Zero) \/ FLt(robot_path_variability, Zero)
    THEN Raise("ValueError")
    ELSE LET accuracy ==
                 FDiv(power_usage,
                      FAdd(power_usage,
                           FMul(I(K_position),
                                FAdd(FAdd(One, environmental_noise),
                                     robot_path_variability))))
         IN  Return(FMax(Zero, FMin(One, accuracy)))

predict_payload_maneuverability(payload_mass, robot_power_output, terrain_complexity) ==
    payload_maneuverability(payload_mass, robot_power_output, terrain_complexity)

predict_crew_time(payload_complexity, system_automation_level) ==
    crew_time_requirements(payload_complexity, system_automation_level)

predict_position_accuracy(power_usage, environmental_noise, robot_path_variability) ==
    position_location_accuracy(power_usage, environmental_noise, robot_path_variability)

(* A prediction function applied to a list of inputs.                      *)
Apply(fn, inputs) ==
    CASE fn = "predict_payload_maneuverability" ->
             predict_payload_maneuverability(inputs[1], inputs[2], inputs[3])
      [] fn = "predict_crew_time" ->
             predict_crew_time(inputs[1], inputs[2])
      [] fn = "predict_position_accuracy" ->
             predict_position_accuracy(inputs[1], inputs[2], inputs[3])

-----------------------------------------------------------------------------
(* Values common to every specification.                                   *)

NoFrame == [cols |-> <<>>, rows |-> <<>>]
NoFile == [written |-> FALSE, cols |-> <<>>, rows |-> <<>>]

IdleCargo ==
    /\ total_shipments = 0
    /\ processed_shipments = 0
    /\ time_elapsed = 0
    /\ drawn = <<>>

IdleRover ==
    /\ time_per_task = [val |-> Zero, dir |-> 0]
    /\ tasks_completed = 0

IdlePower ==
    /\ state = "operational"
    /\ t = 0
    /\ operational_time = 0

IdleValidate ==
    /\ csv = NoFrame
    /\ df = NoFrame
    /\ errors = <<>>
    /\ out = NoFile
    /\ mean_error = NaN

-----------------------------------------------------------------------------
(* The analytic functions called directly through their predict_* exports. *)

ModelFunctions ==
    {"predict_payload_maneuverability", "predict_crew_time",
     "predict_position_accuracy"}

Arity(fn) == IF fn = "predict_crew_time" THEN 2 ELSE 3

ArgValues == {I(x) : x \in -1 .. 2}

ArgLists(fn) ==
    IF Arity(fn) = 2
    THEN {<<a, b>> : a \in ArgValues, b \in ArgValues}
    ELSE {<<a, b, c>> : a \in ArgValues, b \in ArgValues, c \in ArgValues}

InitModels ==
    /\ routine \in ModelFunctions
    /\ args \in ArgLists(routine)
    /\ pc = "start"
    /\ result = NoResult
    /\ iter = 0
    /\ IdleCargo /\ IdleRover /\ IdlePower /\ IdleValidate

CallModel ==
    /\ routine \in ModelFunctions
    /\ pc = "start"
    /\ result' = Apply(routine, args)
    /\ pc' = IF result'.kind = "value" THEN "done" ELSE "raised"
    /\ UNCHANGED <<routine, args, iter, cargoVars, roverVars, powerVars, validateVars>>

NextModels == CallModel

SpecModels == InitModels /\ [][NextModels]_vars

-----------------------------------------------------------------------------
(* Stochastic simulation library.                                          *)

MaxWindow == 4

FloorDiv(a, b) == IF b > 0 THEN a \div b ELSE (-a) \div (-b)

(* ---- IEEE double rounding of a quotient of two integers ---- *)

(* Bits of a double's significand after the leading one.                   *)
MantissaBits == 52

(* n/d scaled by a power of two into [1, 2).                               *)
RECURSIVE Normalised(_, _)
Normalised(n, d) ==
    IF n >= 2 * d THEN Normalised(n, 2 * d)
    ELSE IF n < d THEN Normalised(2 * n, d)
    ELSE <<n, d>>

(* Long division: k more bits of the significand; the remainder and the    *)
(* last bit produced.                                                      *)
RECURSIVE Bits(_, _, _, _)
Bits(rem, b, k, last) ==
    IF k = 0 THEN <<rem, last>>
    ELSE IF 2 * rem >= b THEN Bits(2 * rem - b, b, k - 1, 1)
    ELSE Bits(2 * rem, b, k - 1, 0)

(* Where the double nearest to n/d (n, d > 0) lies: 1 above n/d, -1 below, *)
(* 0 when n/d is a double.  Round to nearest, ties to even.                *)
RoundDir(n, d) ==
    LET nd == Normalised(n, d)
        b == nd[2]
        r == Bits(nd[1] - b, b, MantissaBits, 1)
    IN  IF r[1] = 0 THEN 0
        ELSE IF 2 * r[1] > b THEN 1
        ELSE IF 2 * r[1] < b THEN -1
        ELSE IF r[2] = 1 THEN 1 ELSE -1

(* a / b on floats, a and b integers: the exact quotient and the side on   *)
(* which the double that stands for it lies (1: larger in magnitude).      *)
FloatDiv(a, b) ==
    [val |-> F(a, b), dir |-> IF a = 0 THEN 0 ELSE RoundDir(Abs(a), Abs(b))]

(* x // y on floats, x an integer and y a rounded quotient: the floor of   *)
(* x over the double y.  When x over the exact y is an integer, a double   *)
(* larger in magnitude than the exact y makes the quotient fall short of   *)
(* it, a smaller one makes it pass it.                                     *)
FloatFloorDiv(x, y) ==
    LET num == x * y.val.d
        den == y.val.n
        q == FloorDiv(num, den)
    IN  IF q * den # num \/ q = 0 \/ y.dir = 0 THEN q
        ELSE IF y.dir = 1 THEN (IF q > 0 THEN q - 1 ELSE q)
        ELSE (IF q < 0 THEN q - 1 ELSE q)

(* np.random.poisson(lam): no shipment when lam is 0, any count otherwise. *)
Poisson(lam) == IF lam = Zero THEN {0} ELSE 0 .. MaxShipments

(* random.random() < delay_probability, random.random() being in [0, 1).   *)
DelayDraws(delay_probability) ==
    {b \in BOOLEAN : /\ b => FLt(Zero, delay_probability)
                     /\ ~b => FLt(delay_probability, One)}

(* np.random.exponential(scale): 0 when the scale is 0, positive otherwise. *)
Exponential(scale) == IF scale = 0 THEN {0} ELSE 1 .. MaxDraw

SimRoutines ==
    {"simulate_cargo_flow", "simulate_rover_tasks", "simulate_power_availability"}

CargoArgs ==
    [arrival_rate : {-1, 0, 5},
     processing_time : -1 .. 2,
     delay_probability : {Zero, F(1, 2), One},
     simulation_time : -1 .. MaxWindow]

RoverArgs ==
    [num_rovers : -1 .. MaxRovers,
     rover_speed : -1 .. 3,
     task_distance : {-1, 0, 1, 5, 100},
     simulation_time : {0, 5, 3600}]

PowerArgs ==
    [mtbf : -1 .. 1,
     mttr : -1 .. 1,
     simulation_time : -1 .. MaxHorizon]

InitSim ==
    /\ routine \in SimRoutines
    /\ args \in CASE routine = "simulate_cargo_flow" -> CargoArgs
                  [] routine = "simulate_rover_tasks" -> RoverArgs
                  [] routine = "simulate_power_availability" -> PowerArgs
    /\ pc = "start"
    /\ result = NoResult
    /\ iter = 0
    /\ IdleCargo /\ IdleRover /\ IdlePower /\ IdleValidate

(* ---- simulate_cargo_flow ---- *)

CargoStart ==
    /\ routine = "simulate_cargo_flow"
    /\ pc = "start"
    /\ LET shipments_per_hour == F(args.arrival_rate, 24)
           lam == FMul(shipments_per_hour, I(args.simulation_time))
       IN  IF FLt(lam, Zero)
           THEN /\ result' = Raise("ValueError")
                /\ pc' = "raised"
                /\ UNCHANGED total_shipments
           ELSE /\ total_shipments' \in Poisson(lam)
                /\ pc' = "loop"
                /\ UNCHANGED result
    /\ processed_shipments' = 0
    /\ time_elapsed' = 0
    /\ UNCHANGED <<routine, args, iter, drawn, roverVars, powerVars, validateVars>>

CargoLoop ==
    /\ routine = "simulate_cargo_flow"
    /\ pc = "loop"
    /\ iter < total_shipments
    /\ \E delayed \in DelayDraws(args.delay_probability) :
          LET actual_processing ==
                  args.processing_time * (IF delayed THEN 2 ELSE 1)
          IN  /\ drawn' = Append(drawn, actual_processing)
              /\ IF time_elapsed + actual_processing <= args.simulation_time
                 THEN /\ processed_shipments' = processed_shipments + 1
                      /\ time_elapsed' = time_elapsed + actual_processing
                      /\ iter' = iter + 1
                      /\ pc' = "loop"
                 ELSE /\ pc' = "break"
                      /\ UNCHANGED <<processed_shipments, time_elapsed, iter>>
    /\ UNCHANGED <<routine, args, result, total_shipments, roverVars, powerVars,
                   validateVars>>

CargoReturn ==
    /\ routine = "simulate_cargo_flow"
    /\ (pc = "loop" /\ iter >= total_shipments) \/ pc = "break"
    /\ result' = Return(I(processed_shipments))
    /\ pc' = "done"
    /\ UNCHANGED <<routine, args, iter, cargoVars, roverVars, powerVars, validateVars>>

(* ---- simulate_rover_tasks ---- *)

RoverStart ==
    /\ routine = "simulate_rover_tasks"
    /\ pc = "start"
    /\ IF args.rover_speed = 0
       THEN /\ result' = Raise("ZeroDivisionError")
            /\ pc' = "raised"
            /\ UNCHANGED time_per_task
       ELSE /\ time_per_task' = FloatDiv(args.task_distance, args.rover_speed)
            /\ pc' = "loop"
            /\ UNCHANGED result
    /\ tasks_completed' = 0
    /\ UNCHANGED <<routine, args, iter, cargoVars, powerVars, validateVars>>

RoverLoop ==
    /\ routine = "simulate_rover_tasks"
    /\ pc = "loop"
    /\ iter < args.num_rovers
    /\ IF time_per_task.val = Zero
       THEN /\ result' = Raise("ZeroDivisionError")
            /\ pc' = "raised"
            /\ UNCHANGED <<tasks_completed, iter>>
       ELSE /\ tasks_completed' =
                   tasks_completed + FloatFloorDiv(args.simulation_time, time_per_task)
            /\ iter' = iter + 1
            /\ UNCHANGED <<result, pc>>
    /\ UNCHANGED <<routine, args, time_per_task, cargoVars, powerVars, validateVars>>

RoverReturn ==
    /\ routine = "simulate_rover_tasks"
    /\ pc = "loop"
    /\ iter >= args.num_rovers
    /\ result' = Return(I(tasks_completed))
    /\ pc' = "done"
    /\ UNCHANGED <<routine, args, iter, cargoVars, roverVars, powerVars, validateVars>>

(* ---- simulate_power_availability ---- *)

(* The loop left one hour early.                                           *)
PowerLoopCond_early(clock, horizon) == clock + 1 < horizon

(* while t < simulation_time *)
PowerLoopCond(clock, horizon) == clock < horizon

(* The crossing interval counted to the horizon from time 0, not from the  *)
(* clock.                                                                  *)
TruncatedInterval_whole(clock, horizon) == horizon

(* What the operational interval that crosses the horizon contributes.     *)
TruncatedInterval(clock, horizon) == horizon - clock

PowerStart ==
    /\ routine = "simulate_power_availability"
    /\ pc = "start"
    /\ state' = "operational"
    /\ t' = 0
    /\ operational_time' = 0
    /\ pc' = "loop"
    /\ UNCHANGED <<routine, args, result, iter, cargoVars, roverVars, validateVars>>

PowerOperational ==
    /\ routine = "simulate_power_availability"
    /\ pc = "loop"
    /\ PowerLoopCond(t, args.simulation_time)
    /\ state = "operational"
    /\ IF args.mtbf < 0
       THEN /\ result' = Raise("ValueError")
            /\ pc' = "raised"
            /\ UNCHANGED <<state, t, operational_time>>
       ELSE \E time_until_failure \in Exponential(args.mtbf) :
               IF t + time_until_failure > args.simulation_time
               THEN /\ operational_time' =
                           operational_time + TruncatedInterval(t, args.simulation_time)
                    /\ pc' = "break"
                    /\ UNCHANGED <<state, t, result>>
               ELSE /\ operational_time' = operational_time + time_until_failure
                    /\ t' = t + time_until_failure
                    /\ state' = "repair"
                    /\ UNCHANGED <<pc, result>>
    /\ UNCHANGED <<routine, args, iter, cargoVars, roverVars, validateVars>>

PowerRepair ==
    /\ routine = "simulate_power_availability"
    /\ pc = "loop"
    /\ PowerLoopCond(t, args.simulation_time)
    /\ state = "repair"
    /\ IF args.mttr < 0
       THEN /\ result' = Raise("ValueError")
            /\ pc' = "raised"
            /\ UNCHANGED <<state, t>>
       ELSE \E repair_time \in Exponential(args.mttr) :
               /\ t' = t + repair_time
               /\ state' = "operational"
               /\ UNCHANGED <<pc, result>>
    /\ UNCHANGED <<routine, args, iter, operational_time, cargoVars, roverVars,
                   validateVars>>

PowerReturn ==
    /\ routine = "simulate_power_availability"
    /\ (pc = "loop" /\ ~PowerLoopCond(t, args.simulation_time)) \/ pc = "break"
    /\ IF args.simulation_time = 0
       THEN /\ result' = Raise("ZeroDivisionError")
            /\ pc' = "raised"
       ELSE /\ result' = Return(F(operational_time, args.simulation_time))
            /\ pc' = "done"
    /\ UNCHANGED <<routine, args, iter, cargoVars, roverVars, powerVars, validateVars>>

NextSim ==
    \/ CargoStart \/ CargoLoop \/ CargoReturn
    \/ RoverStart \/ RoverLoop \/ RoverReturn
    \/ PowerStart \/ PowerOperational \/ PowerRepair \/ PowerReturn

SpecSim == InitSim /\ [][NextSim]_vars

(* The interpreter runs a called routine on: a step that can be taken is    *)
(* taken.                                                                   *)
FairSpecSim == SpecSim /\ WF_vars(NextSim)

-----------------------------------------------------------------------------
(* Validation pipeline.                                                    *)

Range(q) == {q[i] : i \in 1 .. Len(q)}

(* Counted as 0 instead of left undefined.                                 *)
compute_error_zero(predicted, actual) ==
    IF actual # Zero
    THEN FMul(FDiv(FAbs(FSub(predicted, actual)), actual), I(100))
    ELSE Zero

compute_error(predicted, actual) ==
    IF actual # Zero
    THEN FMul(FDiv(FAbs(FSub(predicted, actual)), actual), I(100))
    ELSE NaN

RECURSIVE NanSum(_)
NanSum(q) ==
    IF q = <<>> THEN Zero
    ELSE IF IsNaN(Head(q)) THEN NanSum(Tail(q))
    ELSE FAdd(Head(q), NanSum(Tail(q)))

RECURSIVE NanCount(_)
NanCount(q) ==
    IF q = <<>> THEN 0
    ELSE (IF IsNaN(Head(q)) THEN 0 ELSE 1) + NanCount(Tail(q))

(* The undefined entries left out of the sum but not of the count.         *)
nanmean_len(q) ==
    IF NanCount(q) = 0 THEN NaN ELSE FDiv(NanSum(q), I(Len(q)))

(* np.nanmean: the mean of the entries that are not NaN; NaN if none is.   *)
nanmean(q) ==
    IF NanCount(q) = 0 THEN NaN ELSE FDiv(NanSum(q), I(NanCount(q)))

(* The new column put first.                                               *)
SetColumn_first(frame, name, values) ==
    [cols |-> IF name \in Range(frame.cols) THEN frame.cols
              ELSE <<name>> \o frame.cols,
     rows |-> [i \in 1 .. Len(frame.rows) |->
                  [c \in DOMAIN frame.rows[i] \cup {name} |->
                      IF c = name THEN values[i] ELSE frame.rows[i][c]]]]

(* df[name] = values: a column of that name is replaced where it stands,   *)
(* a new name is appended as the last column.                              *)
SetColumn(frame, name, values) ==
    [cols |-> IF name \in Range(frame.cols) THEN frame.cols
              ELSE Append(frame.cols, name),
     rows |-> [i \in 1 .. Len(frame.rows) |->
                  [c \in DOMAIN frame.rows[i] \cup {name} |->
                      IF c = name THEN values[i] ELSE frame.rows[i][c]]]]

(* [row[col] for col in input_columns] *)
Inputs(row, input_columns) ==
    [j \in 1 .. Len(input_columns) |-> row[input_columns[j]]]

(* The prediction function called on the inputs of row i.                       *)
PredictRow(frame, i) ==
    Apply(args.prediction_function, Inputs(frame.rows[i], args.input_columns))

(* main's validation_tasks.                                                *)
validation_tasks ==
    {[validation_file |-> "input/payload_maneuverability.csv",
      prediction_function |-> "predict_payload_maneuverability",
      input_columns |-> <<"payload_mass", "robot_power", "terrain_complexity">>,
      output_column |-> "travel_speed"],
     [validation_file |-> "input/crew_time.csv",
      prediction_function |-> "predict_crew_time",
      input_columns |-> <<"task_complexity", "automation_level">>,
      output_column |-> "crew_time_minutes"],
     [validation_file |-> "input/position_accuracy.csv",
      prediction_function |-> "predict_position_accuracy",
      input_columns |-> <<"power_usage", "environmental_noise", "path_variability">>,
      output_column |-> "positional_error"]}

(* The datasets a validation file may hold: the task's input columns and   *)
(* its reference column, and possibly the two columns of an earlier        *)
(* validation run.  A row carries one value in all its input columns: 0    *)
(* is a disallowed mass or power, 2 a disallowed automation level, 1 is    *)
(* allowed everywhere.                                                     *)
InputValues == {I(0), I(1), I(2)}
ActualValues == {I(0), I(1), I(4)}
StaleValue == I(9)
ExtraColumns == {<<>>, <<"Predicted", "Error (%)">>}

RowsOf(task, extra) ==
    LET ins == Range(task.input_columns)
    IN  {[c \in ins \cup {task.output_column} \cup Range(extra) |->
             IF c \in ins THEN inp
             ELSE IF c = task.output_column THEN act
             ELSE StaleValue] :
         inp \in InputValues, act \in ActualValues}

Datasets(task) ==
    UNION {UNION {{[cols |-> task.input_columns \o <<task.output_column>> \o extra,
                    rows |-> rows] :
                   rows \in [1 .. n -> RowsOf(task, extra)]} :
                  n \in 0 .. MaxRows} :
           extra \in ExtraColumns}

InitValidate ==
    /\ routine = "validate_model"
    /\ args \in validation_tasks
    /\ csv \in Datasets(args)
    /\ pc = "start"
    /\ result = NoResult
    /\ iter = 0
    /\ df = NoFrame
    /\ errors = <<>>
    /\ out = NoFile
    /\ mean_error = NaN
    /\ IdleCargo /\ IdleRover /\ IdlePower

(* os.makedirs, pd.read_csv, errors = [] *)
ValidateStart ==
    /\ routine = "validate_model"
    /\ pc = "start"
    /\ df' = csv
    /\ errors' = <<>>
    /\ iter' = 0
    /\ pc' = "loop"
    /\ UNCHANGED <<routine, args, result, csv, out, mean_error, cargoVars, roverVars,
                   powerVars>>

(* One iteration of "for _, row in df.iterrows()": an error raised by the  *)
(* prediction function is not caught and leaves validate_model.            *)
ValidateRow ==
    /\ routine = "validate_model"
    /\ pc = "loop"
    /\ iter < Len(df.rows)
    /\ LET row == df.rows[iter + 1]
           predicted == PredictRow(df, iter + 1)
           actual == row[args.output_column]
       IN  IF predicted.kind # "value"
           THEN /\ result' = predicted
                /\ pc' = "raised"
                /\ UNCHANGED <<errors, iter>>
           ELSE /\ errors' = Append(errors, compute_error(predicted.val, actual))
                /\ iter' = iter + 1
                /\ UNCHANGED <<result, pc>>
    /\ UNCHANGED <<routine, args, csv, df, out, mean_error, cargoVars, roverVars,
                   powerVars>>

(* df['Predicted'] = [prediction_function(...) for _, row in df.iterrows()] *)
ValidatePredicted ==
    /\ routine = "validate_model"
    /\ pc = "loop"
    /\ iter >= Len(df.rows)
    /\ LET predictions == [i \in 1 .. Len(df.rows) |-> PredictRow(df, i)]
       IN  IF \E i \in 1 .. Len(df.rows) : predictions[i].kind # "value"
           THEN /\ result' = Raise("ValueError")
                /\ pc' = "raised"
                /\ UNCHANGED df
           ELSE /\ df' = SetColumn(df, "Predicted",
                                   [i \in 1 .. Len(df.rows) |-> predictions[i].val])
                /\ pc' = "errors"
                /\ UNCHANGED result
    /\ UNCHANGED <<routine, args, iter, csv, errors, out, mean_error, cargoVars,
                   roverVars, powerVars>>

(* df['Error (%)'] = errors *)
ValidateErrors ==
    /\ routine = "validate_model"
    /\ pc = "errors"
    /\ df' = SetColumn(df, "Error (%)", errors)
    /\ pc' = "save"
    /\ UNCHANGED <<routine, args, result, iter, csv, errors, out, mean_error,
                   cargoVars, roverVars, powerVars>>

(* df.to_csv(output_file, index=False) *)
ValidateSave ==
    /\ routine = "validate_model"
    /\ pc = "save"
    /\ out' = [written |-> TRUE, cols |-> df.cols, rows |-> df.rows]
    /\ pc' = "mean"
    /\ UNCHANGED <<routine, args, result, iter, csv, df, errors, mean_error,
                   cargoVars, roverVars, powerVars>>

(* mean_error = np.nanmean(errors); return mean_error *)
ValidateMean ==
    /\ routine = "validate_model"
    /\ pc = "mean"
    /\ mean_error' = nanmean(errors)
    /\ result' = Return(mean_error')
    /\ pc' = "done"
    /\ UNCHANGED <<routine, args, iter, csv, df, errors, out, cargoVars, roverVars,
                   powerVars>>

NextValidate ==
    \/ ValidateStart \/ ValidateRow \/ ValidatePredicted
    \/ ValidateErrors \/ ValidateSave \/ ValidateMean

SpecValidate == InitValidate /\ [][NextValidate]_vars

-----------------------------------------------------------------------------
(* Properties of the simulations.                                          *)

IsCargo == routine = "simulate_cargo_flow"
IsRover == routine = "simulate_rover_tasks"
IsPower == routine = "simulate_power_availability"

(* A zero or negative rate, speed, distance, mtbf, mttr or processing time. *)
InvalidSimInput ==
    CASE IsCargo -> args.arrival_rate <= 0 \/ args.processing_time <= 0
      [] IsRover -> args.rover_speed <= 0 \/ args.task_distance <= 0
      [] IsPower -> args.mtbf <= 0 \/ args.mttr <= 0
      [] OTHER -> FALSE

(* C2: a simulation routine called with a zero or negative rate, speed,    *)
(* distance, mtbf, mttr or processing time fails fast with InvalidInput    *)
(* (ValueError): once it has left its first line it has raised that error, *)
(* and has neither divided by zero, nor entered a loop, nor returned.      *)
C2_InvalidInputFailsFast ==
    (InvalidSimInput /\ pc # "start") =>
        (pc = "raised" /\ result.kind = "ValueError")

(* C3: every simulation loop terminates: each call eventually returns a    *)
(* result (or raises), whatever the parameters and the random draws.       *)
C3_EveryCallTerminates == <>(pc \in {"done", "raised"})

(* C4 as stated: for a positive horizon the accumulated operational time   *)
(* exceeds neither the horizon nor the simulated clock at any step, and    *)
(* the returned value is operational time over horizon, within [0, 1].     *)
C4_OperationalTimeBelowClockAndHorizon ==
    (IsPower /\ args.simulation_time > 0 /\ pc # "start") =>
        /\ operational_time <= args.simulation_time
        /\ operational_time <= t
        /\ pc = "done" =>
              /\ result = Return(F(operational_time, args.simulation_time))
              /\ FLe(Zero, result.val) /\ FLe(result.val, One)

(* C4 amended: for a positive horizon the accumulated operational time     *)
(* never exceeds the horizon; it never exceeds the clock while the loop    *)
(* runs or after the clock has reached the horizon; the truncating step    *)
(* adds horizon minus clock without advancing the clock (so the time spent *)
(* operational before it was at most the clock); the returned value is     *)
(* operational time over horizon and lies in [0, 1].                       *)
C4_OperationalTimeBelowHorizon ==
    (IsPower /\ args.simulation_time > 0 /\ pc # "start") =>
        /\ 0 <= operational_time
        /\ operational_time <= args.simulation_time
        /\ (pc = "loop" \/ t >= args.simulation_time) => operational_time <= t
        /\ pc = "break" => operational_time - (args.simulation_time - t) <= t
        /\ pc = "done" =>
              /\ result = Return(F(operational_time, args.simulation_time))
              /\ FLe(Zero, result.val) /\ FLe(result.val, One)

(* An operational interval was truncated at the horizon after a failure    *)
(* and a repair, and the routine returned with more operational time than  *)
(* its clock shows.                                                        *)
C4_Witness ==
    /\ IsPower /\ pc = "done"
    /\ args.simulation_time > 0
    /\ 0 < t /\ t < args.simulation_time
    /\ t < operational_time

(* C8: simulate_rover_tasks, for a positive speed and distance and a       *)
(* non-negative rover count and window, returns num_rovers * k where k is  *)
(* the floor of simulation_time / (task_distance / rover_speed), that is   *)
(* the integer with k * distance <= time * speed < (k + 1) * distance; 2   *)
(* rovers at speed 1 over distance 100 in 3600 seconds return 72.          *)
C8_RoverTasksFormula ==
    (/\ IsRover /\ pc = "done"
     /\ args.rover_speed > 0 /\ args.task_distance > 0
     /\ args.num_rovers >= 0 /\ args.simulation_time >= 0) =>
        /\ \E k \in 0 .. (args.simulation_time * args.rover_speed) :
              /\ k * args.task_distance <= args.simulation_time * args.rover_speed
              /\ args.simulation_time * args.rover_speed < (k + 1) * args.task_distance
              /\ result = Return(I(args.num_rovers * k))
        /\ (args = [num_rovers |-> 2, rover_speed |-> 1, task_distance |-> 100,
                    simulation_time |-> 3600]) => result = Return(I(72))

(* C9 as stated: the power model starts in 'operational', changes state    *)
(* only when a sojourn expires (the clock advancing by the drawn sojourn), *)
(* alternates operational -> repair -> operational, and whenever the       *)
(* routine returns the clock is at or beyond the horizon.                  *)
C9_ReturnsWithClockAtHorizon ==
    /\ IsPower => state = "operational"
    /\ [][IsPower =>
            /\ state' # state =>
                  /\ pc = "loop" /\ t < args.simulation_time
                  /\ (t' - t) \in Exponential(IF state = "operational"
                                             THEN args.mtbf ELSE args.mttr)
                  /\ <<state, state'>> \in {<<"operational", "repair">>,
                                            <<"repair", "operational">>}
            /\ t' # t => state' # state
            /\ pc' = "done" => t' >= args.simulation_time]_vars

(* C9 amended: as stated, except that the routine returns either with the  *)
(* clock at or beyond the horizon or right after truncating the final      *)
(* operational interval, in state 'operational' with the clock below the   *)
(* horizon.                                                                *)
C9_ReturnsAtHorizonOrTruncated ==
    /\ IsPower => state = "operational"
    /\ [][IsPower =>
            /\ state' # state =>
                  /\ pc = "loop" /\ t < args.simulation_time
                  /\ (t' - t) \in Exponential(IF state = "operational"
                                             THEN args.mtbf ELSE args.mttr)
                  /\ <<state, state'>> \in {<<"operational", "repair">>,
                                            <<"repair", "operational">>}
            /\ t' # t => state' # state
            /\ pc' = "done" =>
                  \/ t' >= args.simulation_time
                  \/ pc = "break" /\ state' = "operational"]_vars

(* The routine returned from 'operational' after a failure and a repair,   *)
(* with the clock exactly at the horizon.                                  *)
C9_Witness ==
    /\ IsPower /\ pc = "done"
    /\ state = "operational"
    /\ t = args.simulation_time
    /\ 0 < operational_time /\ operational_time < t

RECURSIVE SumSeq(_)
SumSeq(q) == IF q = <<>> THEN 0 ELSE Head(q) + SumSeq(Tail(q))

(* C10: simulate_cargo_flow counts the longest prefix of the drawn         *)
(* shipments whose cumulative processing time fits the window: elapsed     *)
(* time never exceeds the window, the count never exceeds the number of    *)
(* shipments drawn, every counted shipment fits, the first one that does   *)
(* not fit ends the count, and the count is returned.                      *)
C10_LongestFittingPrefix ==
    (IsCargo /\ pc \in {"loop", "break", "done"}) =>
        /\ time_elapsed <= args.simulation_time
        /\ processed_shipments <= total_shipments
        /\ processed_shipments <= Len(drawn)
        /\ time_elapsed = SumSeq(SubSeq(drawn, 1, processed_shipments))
        /\ \A k \in 1 .. Len(drawn) :
              (SumSeq(SubSeq(drawn, 1, k)) <= args.simulation_time)
                  <=> (k <= processed_shipments)
        /\ Len(drawn) > processed_shipments =>
              (Len(drawn) = processed_shipments + 1 /\ pc # "loop")
        /\ pc = "done" => result = Return(I(processed_shipments))

-----------------------------------------------------------------------------
(* Properties of the analytic models.                                      *)

(* The inputs the models document as disallowed.                           *)
Disallowed(fn, a) ==
    CASE fn = "predict_payload_maneuverability" ->
             a[1].n <= 0 \/ a[2].n <= 0 \/ a[3].n < 0
      [] fn = "predict_crew_time" ->
             a[1].n < 0 \/ a[2].n < 0 \/ a[2].n > a[2].d
      [] fn = "predict_position_accuracy" ->
             a[1].n <= 0 \/ a[2].n < 0 \/ a[3].n < 0

(* C6: each analytic model, called through its predict_* export with a     *)
(* disallowed input, raises InvalidInput (ValueError) and returns no       *)
(* value; called with an allowed input it raises nothing and returns.      *)
C6_DisallowedInputRaises ==
    (routine \in ModelFunctions /\ pc # "start") =>
        IF Disallowed(routine, args)
        THEN pc = "raised" /\ result = Raise("ValueError")
        ELSE pc = "done" /\ result.kind = "value"

(* Payload maneuverability was called with a zero mass and otherwise       *)
(* allowed inputs, and raised.                                             *)
C6_Witness ==
    /\ routine = "predict_payload_maneuverability"
    /\ args = <<I(0), I(1), I(1)>>
    /\ pc = "raised"

-----------------------------------------------------------------------------
(* Properties of the validation pipeline.                                  *)

IsValidate == routine = "validate_model"

RowRaises(i) ==
    Apply(args.prediction_function,
          Inputs(csv.rows[i], args.input_columns)).kind = "ValueError"

(* C1: a row on which the prediction function raises InvalidInput does not *)
(* abort the batch: validate_model never ends in that error, and when it   *)
(* has run it has written every row, the failing rows carrying an error    *)
(* marker, and reported a mean error.                                      *)
C1_RowFailureDoesNotAbort ==
    IsValidate =>
        /\ pc # "raised"
        /\ pc = "done" =>
              /\ out.written
              /\ Len(out.rows) = Len(csv.rows)
              /\ \A i \in 1 .. Len(csv.rows) :
                    RowRaises(i) => IsNaN(out.rows[i]["Error (%)"])
              /\ result.kind = "value"

NewColumns == <<"Predicted", "Error (%)">>

(* C5 as stated: the dataset written has the rows of the input dataset in  *)
(* the same order and number, every original column unchanged, exactly the *)
(* two columns Predicted and Error (%) appended, and each row's error is   *)
(* the error of that row's Predicted value, which is the model's           *)
(* prediction for the row.                                                 *)
C5_TwoColumnsAppended ==
    (IsValidate /\ out.written) =>
        /\ out.cols = csv.cols \o NewColumns
        /\ Len(out.rows) = Len(csv.rows)
        /\ \A i \in 1 .. Len(csv.rows) :
              /\ \A c \in Range(csv.cols) : out.rows[i][c] = csv.rows[i][c]
              /\ out.rows[i]["Predicted"] =
                     Apply(args.prediction_function,
                           Inputs(csv.rows[i], args.input_columns)).val
              /\ out.rows[i]["Error (%)"] =
                     compute_error(out.rows[i]["Predicted"],
                                   csv.rows[i][args.output_column])

(* C5 amended: as stated when the input dataset has no column named        *)
(* Predicted or Error (%); a column of the input that has one of these     *)
(* names is overwritten where it stands and no column is appended for it,  *)
(* every other column being unchanged.                                     *)
C5_TwoColumnsSet ==
    (IsValidate /\ out.written) =>
        /\ out.cols = csv.cols \o SelectSeq(NewColumns, LAMBDA c : c \notin Range(csv.cols))
        /\ Len(out.rows) = Len(csv.rows)
        /\ \A i \in 1 .. Len(csv.rows) :
              /\ DOMAIN out.rows[i] = Range(out.cols)
              /\ \A c \in Range(csv.cols) \ Range(NewColumns) :
                    out.rows[i][c] = csv.rows[i][c]
              /\ out.rows[i]["Predicted"] =
                     Apply(args.prediction_function,
                           Inputs(csv.rows[i], args.input_columns)).val
              /\ out.rows[i]["Error (%)"] =
                     compute_error(out.rows[i]["Predicted"],
                                   csv.rows[i][args.output_column])

(* A dataset of two different rows and no earlier result columns was       *)
(* written with its two new columns.                                       *)
C5_Witness ==
    /\ IsValidate /\ out.written
    /\ Len(csv.rows) = 2
    /\ csv.rows[1] # csv.rows[2]
    /\ "Predicted" \notin Range(csv.cols)
    /\ Len(out.cols) = Len(csv.cols) + 2

RECURSIVE SumOver(_, _)
SumOver(S, f) ==
    IF S = {} THEN Zero
    ELSE LET i == CHOOSE j \in S : TRUE
         IN  FAdd(f[i], SumOver(S \ {i}, f))

(* C7: a row whose reference value is 0 gets the not-a-number sentinel as  *)
(* its error, no error being raised for it, and a row whose reference      *)
(* value is not 0 gets a defined error; the mean error reported is the sum *)
(* of the defined errors over the number of rows whose error is defined.   *)
C7_UndefinedErrorsExcluded ==
    IsValidate =>
        /\ \A i \in 1 .. Len(errors) :
              IsNaN(errors[i]) <=> (csv.rows[i][args.output_column] = Zero)
        /\ pc = "done" =>
              LET Defined == {i \in 1 .. Len(csv.rows) :
                                 csv.rows[i][args.output_column] # Zero}
              IN  /\ Len(errors) = Len(csv.rows)
                  /\ result = Return(mean_error)
                  /\ Defined # {} =>
                        /\ ~IsNaN(mean_error)
                        /\ FMul(mean_error, I(Cardinality(Defined)))
                               = SumOver(Defined, errors)

(* A run ended with one row of reference value 0 and two rows with         *)
(* different defined errors, whose mean was reported.                      *)
C7_Witness ==
    /\ IsValidate /\ pc = "done"
    /\ Len(csv.rows) = 3
    /\ csv.rows[1][args.output_column] = Zero
    /\ IsNaN(errors[1])
    /\ ~IsNaN(errors[2]) /\ ~IsNaN(errors[3])
    /\ errors[2] # errors[3]
    /\ FMul(mean_error, I(2)) = FAdd(errors[2], errors[3])

====
